---- MODULE Spec2Model ----
(***************************************************************************)
(* Model of Package.py: download or build a Maven / NPM module of a public *)
(* GitHub repository.  Python strings are sequences of one-character       *)
(* strings; the functions of the script are operators over the values they *)
(* receive and over what the environment (GitHub, the file system, the     *)
(* build tools) answers; the __main__ block is the state machine.          *)
(***************************************************************************)
EXTENDS Integers, Sequences, FiniteSets, TLC

VARIABLES argv, github_url, module_names, version, owner, repo, i, pc, err,
          asset_url, root_path, module_path, proj_type, detected_version,
          cwd, last, steps

vars == <<argv, github_url, module_names, version, owner, repo, i, pc, err,
          asset_url, root_path, module_path, proj_type, detected_version,
          cwd, last, steps>>

(***************************************************************************)
(* Bounds of the model.                                                    *)
(***************************************************************************)
MaxSegs == 3
MaxSubpath == 2
MaxAssets == 3
MaxModules == 2
MaxMainAssets == 1
MaxWalk == 2
MaxFiles == 2

(***************************************************************************)
(* Python values.                                                          *)
(***************************************************************************)
\* Python's None, kept comparable with strings (sequences of characters).
None == <<"None">>

\* Truth value of an optional string: None and "" are false.
Truthy(x) == x # None /\ x # <<>>

UpperCase == <<"A", "B", "C", "D", "E", "F", "G", "H", "I", "J", "K", "L", "M",
               "N", "O", "P", "Q", "R", "S", "T", "U", "V", "W", "X", "Y", "Z">>

LowerCase == <<"a", "b", "c", "d", "e", "f", "g", "h", "i", "j", "k", "l", "m",
               "n", "o", "p", "q", "r", "s", "t", "u", "v", "w", "x", "y", "z">>

\* str.lower() on one character.
lower_char(c) ==
    IF \E k \in 1..26 : UpperCase[k] = c
    THEN LowerCase[CHOOSE k \in 1..26 : UpperCase[k] = c]
    ELSE c

\* str.lower()
lower(s) == [k \in 1..Len(s) |-> lower_char(s[k])]

\* str.endswith(suffix)
endswith(s, suffix) ==
    /\ Len(s) >= Len(suffix)
    /\ SubSeq(s, Len(s) - Len(suffix) + 1, Len(s)) = suffix

\* str.startswith(prefix)
startswith(s, prefix) ==
    /\ Len(s) >= Len(prefix)
    /\ SubSeq(s, 1, Len(prefix)) = prefix

\* sub in s
contains(s, sub) ==
    \E k \in 0..(Len(s) - Len(sub)) : SubSeq(s, k + 1, k + Len(sub)) = sub

\* s[k:] (0-based k)
drop(s, k) == SubSeq(s, k + 1, Len(s))

\* str.strip(c)
RECURSIVE lstrip(_, _)
lstrip(s, c) == IF s # <<>> /\ Head(s) = c THEN lstrip(Tail(s), c) ELSE s

RECURSIVE rstrip(_, _)
rstrip(s, c) ==
    IF s # <<>> /\ s[Len(s)] = c THEN rstrip(SubSeq(s, 1, Len(s) - 1), c) ELSE s

strip(s, c) == rstrip(lstrip(s, c), c)

\* str.split(c): the pieces between the occurrences of c, at least one piece.
RECURSIVE split_from(_, _, _)
split_from(s, c, cur) ==
    IF s = <<>> THEN <<cur>>
    ELSE IF Head(s) = c THEN <<cur>> \o split_from(Tail(s), c, <<>>)
    ELSE split_from(Tail(s), c, Append(cur, Head(s)))

split(s, c) == split_from(s, c, <<>>)

\* str.replace(old, new): every non-overlapping occurrence, left to right.
RECURSIVE replace(_, _, _)
replace(s, old, new) ==
    IF s = <<>> THEN <<>>
    ELSE IF startswith(s, old) THEN new \o replace(drop(s, Len(old)), old, new)
    ELSE <<Head(s)>> \o replace(Tail(s), old, new)

\* sep.join(parts)
RECURSIVE join(_, _)
join(parts, sep) ==
    IF parts = <<>> THEN <<>>
    ELSE IF Len(parts) = 1 THEN parts[1]
    ELSE parts[1] \o sep \o join(Tail(parts), sep)

\* Sequences over S of length lo..hi.
SeqsOf(S, lo, hi) == UNION {[1..n -> S] : n \in lo..hi}

\* The result of a call: a value, or a raised exception.
Ok(v) == [exc |-> "none", val |-> v]
Raise(e) == [exc |-> e, val |-> None]

(***************************************************************************)
(* urllib.parse.urlparse(url).path                                         *)
(***************************************************************************)
\* Index of the first character of s that is in cs, or Len(s) + 1.
first_of(s, cs) ==
    IF \E k \in 1..Len(s) : s[k] \in cs
    THEN CHOOSE k \in 1..Len(s) : s[k] \in cs /\ \A j \in 1..(k - 1) : s[j] \notin cs
    ELSE Len(s) + 1

\* urlparse keeps the parameters of the last path segment apart: the path
\* ends at the first ";" after its last "/".
split_params(p) ==
    LET slashes == {k \in 1..Len(p) : p[k] = "/"}
        from == IF slashes = {} THEN 1 ELSE CHOOSE k \in slashes : \A j \in slashes : j <= k
        semis == {k \in from..Len(p) : p[k] = ";"}
    IN IF semis = {} THEN p
       ELSE SubSeq(p, 1, (CHOOSE k \in semis : \A j \in semis : k <= j) - 1)

\* scheme ":" then, after "//", the host up to the next "/", "?" or "#";
\* the path runs to the first "?" or "#".
urlparse_path(url) ==
    LET colon == first_of(url, {":"})
        hasScheme == colon <= Len(url) /\ colon > 1
                       /\ \A k \in 1..(colon - 1) : url[k] \notin {"/", "?", "#"}
        rest == IF hasScheme THEN drop(url, colon) ELSE url
        afterHost == IF startswith(rest, <<"/", "/">>)
                     THEN LET r2 == drop(rest, 2)
                          IN drop(r2, first_of(r2, {"/", "?", "#"}) - 1)
                     ELSE rest
    IN split_params(SubSeq(afterHost, 1, first_of(afterHost, {"?", "#"}) - 1))

(***************************************************************************)
(* parse_github_url                                                        *)
(***************************************************************************)
DotGit == <<".", "g", "i", "t">>

\* As parse_github_url, the repository name taken as it stands.
parse_github_url_KeepDotGit(url) ==
    LET path_parts == split(strip(urlparse_path(url), "/"), "/")
    IN IF Len(path_parts) < 2
       THEN Raise("ValueError")
       ELSE Ok(<<path_parts[1], path_parts[2]>>)

parse_github_url(url) ==
    LET path_parts == split(strip(urlparse_path(url), "/"), "/")
    IN IF Len(path_parts) < 2
       THEN Raise("ValueError")
       ELSE Ok(<<path_parts[1], replace(path_parts[2], DotGit, <<>>)>>)

(***************************************************************************)
(* get_release_asset                                                       *)
(***************************************************************************)
Extensions == {<<".", "j", "a", "r">>, <<".", "t", "g", "z">>,
               <<".", "z", "i", "p">>, <<".", "t", "a", "r", ".", "g", "z">>}

\* The release endpoint queried: by tag when a version is given, else latest.
release_url(o, r, v) ==
    IF Truthy(v) THEN <<o, r, <<"t", "a", "g", "s">>, v>>
    ELSE <<o, r, <<"l", "a", "t", "e", "s", "t">>>>

\* As scan_assets, the asset name compared as it stands (not lowercased).
RECURSIVE scan_assets_NoLower(_, _)
scan_assets_NoLower(assets, module_name) ==
    IF assets = <<>> THEN None
    ELSE LET name == Head(assets).name
         IN IF Truthy(module_name) /\ ~contains(name, lower(module_name))
            THEN scan_assets_NoLower(Tail(assets), module_name)
            ELSE IF \E e \in Extensions : endswith(name, e)
                 THEN Head(assets).browser_download_url
                 ELSE scan_assets_NoLower(Tail(assets), module_name)

\* The loop over release["assets"], returning at the first asset kept.
RECURSIVE scan_assets(_, _)
scan_assets(assets, module_name) ==
    IF assets = <<>> THEN None
    ELSE LET name == lower(Head(assets).name)
         IN IF Truthy(module_name) /\ ~contains(name, lower(module_name))
            THEN scan_assets(Tail(assets), module_name)
            ELSE IF \E e \in Extensions : endswith(name, e)
                 THEN Head(assets).browser_download_url
                 ELSE scan_assets(Tail(assets), module_name)

\* No answer at all: requests.get raises.
NoResponse == [status_code |-> 0, assets |-> <<>>]

\* As get_release_asset, a non-success status raised (raise_for_status).
get_release_asset_RaiseForStatus(r, module_name) ==
    IF r = NoResponse THEN Raise("ConnectionError")
    ELSE IF r.status_code # 200 THEN Raise("HTTPError")
    ELSE Ok(scan_assets(r.assets, module_name))

\* r is the answer of the hosting API: its status code and its asset list.
get_release_asset(r, module_name) ==
    IF r = NoResponse THEN Raise("ConnectionError")
    ELSE IF r.status_code # 200 THEN Ok(None)
    ELSE Ok(scan_assets(r.assets, module_name))

(***************************************************************************)
(* download_file, download_source, find_module_path, detect_project_type   *)
(***************************************************************************)
\* os.path.join(a, b)
path_join(a, b) == a \o <<"/">> \o b

\* url.split("/")[-1]
basename(url) == LET parts == split(url, "/") IN parts[Len(parts)]

\* http is the HTTP outcome of the GET; the file is written only after
\* raise_for_status passed.
download_file(url, http) ==
    IF http # "ok" THEN Raise("HTTPError") ELSE Ok(basename(url))

\* The directory tempfile.mkdtemp() + "/src" + the archive's root folder.
ExtractedRoot == <<"t", "/", "s", "r", "c", "/", "R">>

\* outcome: what fetching and unpacking the zipball ran into.
download_source(outcome) ==
    CASE outcome = "http_error" -> Raise("HTTPError")
      [] outcome = "bad_zip" -> Raise("BadZipFile")
      [] outcome = "empty_archive" -> Raise("IndexError")
      [] OTHER -> Ok(ExtractedRoot)

\* walk is os.walk(root_path): the visited directories, in order, each with
\* the names of its subdirectories.
RECURSIVE find_module_path(_, _)
find_module_path(walk, module_name) ==
    IF walk = <<>> THEN Raise("FileNotFoundError")
    ELSE IF module_name \in Head(walk).dirnames
         THEN Ok(path_join(Head(walk).dirpath, module_name))
         ELSE find_module_path(Tail(walk), module_name)

\* As detect_project_type, with npm as the fallback.
detect_project_type_NpmDefault(pom_exists, package_json_exists) ==
    IF pom_exists THEN "maven" ELSE "npm"

detect_project_type(pom_exists, package_json_exists) ==
    IF pom_exists THEN "maven"
    ELSE IF package_json_exists THEN "npm"
    ELSE "unknown"

(***************************************************************************)
(* get_version                                                             *)
(***************************************************************************)
Unknown == <<"u", "n", "k", "n", "o", "w", "n">>

\* doc is the content of the descriptor read: for pom.xml whether it is
\* well-formed XML, whether its root is in the Maven namespace, whether it
\* has a top-level version element and that element's text; for
\* package.json whether it is well-formed JSON and its "version" entry.
get_version(doc, ptype) ==
    CASE ptype = "maven" ->
           IF ~doc.wellformed THEN Raise("ParseError")
           ELSE IF doc.namespaced /\ doc.has_version THEN Ok(doc.version)
           ELSE Ok(Unknown)
      [] ptype = "npm" ->
           IF ~doc.wellformed THEN Raise("JSONDecodeError")
           ELSE IF doc.has_version THEN Ok(doc.version)
           ELSE Ok(Unknown)
      [] OTHER -> Ok(Unknown)

(***************************************************************************)
(* package_maven_module, package_npm_module                                *)
(***************************************************************************)
Jar == <<".", "j", "a", "r">>
Tgz == <<".", "t", "g", "z">>

\* [f for f in listing if f.endswith(ext)]
RECURSIVE with_ext(_, _)
with_ext(listing, ext) ==
    IF listing = <<>> THEN <<>>
    ELSE IF endswith(Head(listing), ext)
         THEN <<Head(listing)>> \o with_ext(Tail(listing), ext)
         ELSE with_ext(Tail(listing), ext)

\* The exception of subprocess.run(..., check=True) for one exit outcome.
run_exc(exit) ==
    CASE exit = "nonzero" -> "CalledProcessError"
      [] exit = "no_tool" -> "FileNotFoundError"
      [] OTHER -> "none"

\* As package_maven_module, a build without a JAR reported as a failed build.
package_maven_module_SameError(runs, target) ==
    IF runs[1] # "ok" THEN Raise(run_exc(runs[1]))
    ELSE IF ~target.exists THEN Raise("FileNotFoundError")
    ELSE LET jars == with_ext(target.files, Jar)
         IN IF jars = <<>> THEN Raise("CalledProcessError") ELSE Ok(jars[1])

\* runs: the outcome of each subprocess started, in order; target: whether
\* <module>/target exists, and os.listdir of it.  The value is the name of
\* the file copied into the working directory.
package_maven_module(runs, target) ==
    IF runs[1] # "ok" THEN Raise(run_exc(runs[1]))
    ELSE IF ~target.exists THEN Raise("FileNotFoundError")
    ELSE LET jars == with_ext(target.files, Jar)
         IN IF jars = <<>> THEN Raise("FileNotFoundError") ELSE Ok(jars[1])

\* As package_npm_module, the exit status of npm pack not checked.
package_npm_module_Unchecked(runs, dir) ==
    IF runs[1] # "ok" THEN Raise(run_exc(runs[1]))
    ELSE LET tgzs == with_ext(dir.files, Tgz)
         IN IF tgzs = <<>> THEN Raise("FileNotFoundError") ELSE Ok(tgzs[1])

\* runs: the outcomes of npm install and, when it was started, npm pack;
\* dir: os.listdir of the module directory after them.
package_npm_module(runs, dir) ==
    IF runs[1] # "ok" THEN Raise(run_exc(runs[1]))
    ELSE IF runs[2] # "ok" THEN Raise(run_exc(runs[2]))
    ELSE LET tgzs == with_ext(dir.files, Tgz)
         IN IF tgzs = <<>> THEN Raise("FileNotFoundError") ELSE Ok(tgzs[1])

(***************************************************************************)
(* The inputs and the environment's answers.                               *)
(***************************************************************************)
Prog == <<"p">>
UrlHead == <<"h", ":", "/", "/", "g">>

\* Path segments of the repository URLs tried.
Tree == <<"t", "r", "e", "e">>
Segments == {<<>>, <<"o">>, <<"r">>, <<"r">> \o DotGit, DotGit, Tree}

UrlOf(segs) == UrlHead \o <<"/">> \o join(segs, <<"/">>)

\* https://host/owner/repo/tree/<branch>/<subpath...>
RepoSegments == {<<"r">>, <<"r">> \o DotGit, <<"a">> \o DotGit \o <<"b">>}
SubpathSegments == {<<"a">>, <<"b">>}
TreeUrls ==
    {UrlOf(<<<<"o">>, r, Tree, <<"b">>>> \o sub) :
        r \in RepoSegments, sub \in SeqsOf(SubpathSegments, 1, MaxSubpath)}

\* https://host/<seg>/<seg>/... with up to MaxSegs segments (an empty
\* segment gives a doubled or a trailing slash), and the tree URLs.
LocatorUrls ==
    {UrlHead} \cup {UrlOf(segs) : segs \in SeqsOf(Segments, 1, MaxSegs)} \cup TreeUrls

Versions == {<<"v">>}
ModuleNames == {<<"m">>, <<"x">>}

\* sys.argv[2]: up to MaxModules names joined by commas.
ModuleArgs == {join(ns, <<",">>) : ns \in SeqsOf(ModuleNames, 1, MaxModules)}

MainUrls == {UrlHead \o <<"/", "o", "/", "r">> \o DotGit, UrlHead \o <<"/", "o">>}

ArgvsOver(urls) ==
    {<<Prog, u, m>> : u \in urls, m \in ModuleArgs}
    \cup {<<Prog, u, m, v>> : u \in urls, m \in ModuleArgs, v \in Versions}

MainArgvs == ArgvsOver(MainUrls) \cup {<<Prog>>, <<Prog, UrlHead>>}

\* Release asset file names.
AssetNames ==
    {<<"m">> \o Jar, <<"M">> \o <<".", "J", "A", "R">>, <<"m", ".", "e", "x", "e">>,
     <<"f", "-", "m">> \o Tgz, <<"f", "-", "m", ".", "e", "x", "e">>,
     <<"x", ".", "z", "i", "p">>, <<"x", ".", "t", "a", "r", ".", "g", "z">>,
     <<"x", ".", "g", "z">>, Jar}

MainAssetNames == {<<"m">> \o Jar, <<"m", ".", "e", "x", "e">>, <<"x">> \o Tgz}

\* The download URL of the k-th asset of a release.
AssetUrl(k, name) == <<"d", "/", ToString(k), "/">> \o name

AssetLists(names, maxlen) ==
    {[k \in 1..Len(f) |-> [name |-> f[k], browser_download_url |-> AssetUrl(k, f[k])]] :
        f \in SeqsOf(names, 0, maxlen)}

\* The answers of the releases endpoint: a release with its assets, or a
\* non-success status (no release, unknown tag, rate limit).
Releases(names, maxlen) ==
    {[status_code |-> 200, assets |-> a] : a \in AssetLists(names, maxlen)}
    \cup {[status_code |-> c, assets |-> <<>>] : c \in {404, 403}}

\* os.walk of the extracted tree: the root, then a chain of nested
\* directories "s", each listed with the names of its subdirectories.
DirNames == {<<"m">>, <<"x">>, <<"s">>}

RECURSIVE chain(_, _)
chain(root, k) == IF k = 0 THEN root ELSE path_join(chain(root, k - 1), <<"s">>)

Walks(root) ==
    {[k \in 1..Len(l) |-> [dirpath |-> chain(root, k - 1), dirnames |-> l[k]]] :
        l \in {w \in SeqsOf(SUBSET DirNames, 1, MaxWalk) :
                  \A k \in 1..(Len(w) - 1) : <<"s">> \in w[k]}}

\* pom.xml and package.json as get_version reads them.
V1 == <<"1", ".", "0">>

PomDocs ==
    {[wellformed |-> FALSE, namespaced |-> FALSE, has_version |-> FALSE, version |-> None]}
    \cup {[wellformed |-> TRUE, namespaced |-> n, has_version |-> FALSE, version |-> None] :
             n \in BOOLEAN}
    \cup {[wellformed |-> TRUE, namespaced |-> n, has_version |-> TRUE, version |-> v] :
             n \in BOOLEAN, v \in {V1, None}}

PackageDocs ==
    {[wellformed |-> FALSE, namespaced |-> FALSE, has_version |-> FALSE, version |-> None],
     [wellformed |-> TRUE, namespaced |-> FALSE, has_version |-> FALSE, version |-> None],
     [wellformed |-> TRUE, namespaced |-> FALSE, has_version |-> TRUE, version |-> V1]}

NoDoc == [wellformed |-> TRUE, namespaced |-> FALSE, has_version |-> FALSE, version |-> None]

\* Directory listings after a build: up to MaxFiles distinct files.
BuildFiles == {<<"a">> \o Jar, <<"a">> \o Tgz, <<"a", ".", "t", "x", "t">>}

Listings ==
    {l \in SeqsOf(BuildFiles, 0, MaxFiles) :
        \A j, k \in 1..Len(l) : j # k => l[j] # l[k]}

TargetDirs ==
    {[exists |-> TRUE, files |-> l] : l \in Listings}
    \cup {[exists |-> FALSE, files |-> <<>>]}

ModuleDirs == {[exists |-> TRUE, files |-> l] : l \in Listings}

MvnRuns == {<<"no_tool">>, <<"nonzero">>, <<"ok">>}
NpmRuns == {<<"no_tool">>, <<"nonzero">>, <<"ok", "nonzero">>, <<"ok", "ok">>}

(***************************************************************************)
(* The __main__ block.  pc is the statement about to run, i the 1-based    *)
(* position of module_name in module_names.  last is the call that was     *)
(* made last: what the environment answered (obs), the exception it raised *)
(* (exc) and its value (out); steps lists the calls made for the module    *)
(* being processed.                                                        *)
(***************************************************************************)
Event(step, obs, r) == [step |-> step, obs |-> obs, exc |-> r.exc, out |-> r.val]

Init ==
    /\ argv \in MainArgvs
    /\ github_url = None /\ module_names = <<>> /\ version = None
    /\ owner = None /\ repo = None
    /\ i = 0 /\ pc = "start" /\ err = "none"
    /\ asset_url = None /\ root_path = None /\ module_path = None
    /\ proj_type = "none" /\ detected_version = None
    /\ cwd = {}
    /\ last = Event("none", None, Ok(None))
    /\ steps = <<>>

\* An uncaught exception ends the process.
Abort(e) ==
    /\ pc' = "aborted"
    /\ err' = e
    /\ UNCHANGED i

\* The end of one pass of the for loop.  The names bound in the loop body
\* are all rebound before they are read in the next pass; they are dropped.
NextIteration ==
    /\ i' = i + 1
    /\ pc' = IF i + 1 > Len(module_names) THEN "done" ELSE "release"
    /\ err' = err
    /\ asset_url' = None /\ root_path' = None /\ module_path' = None
    /\ proj_type' = "none" /\ detected_version' = None

\* if len(sys.argv) < 3: usage, sys.exit(1)
Main_Usage ==
    /\ pc = "start"
    /\ Len(argv) < 3
    /\ pc' = "exit"
    /\ err' = "SystemExit"
    /\ last' = Event("usage", None, Raise("SystemExit"))
    /\ UNCHANGED <<argv, github_url, module_names, version, owner, repo, i,
                   asset_url, root_path, module_path, proj_type,
                   detected_version, cwd, steps>>

\* github_url, module_names, version from sys.argv; parse_github_url.
Main_ParseArgs ==
    /\ pc = "start"
    /\ Len(argv) >= 3
    /\ LET r == parse_github_url(argv[2])
       IN /\ github_url' = argv[2]
          /\ module_names' = split(argv[3], ",")
          /\ version' = IF Len(argv) >= 4 THEN argv[4] ELSE None
          /\ last' = Event("parse", None, [exc |-> r.exc, val |-> None])
          /\ IF r.exc # "none"
             THEN /\ Abort(r.exc)
                  /\ UNCHANGED <<owner, repo>>
             ELSE /\ owner' = r.val[1]
                  /\ repo' = r.val[2]
                  /\ i' = 1
                  /\ pc' = "release"
                  /\ err' = err
    /\ UNCHANGED <<argv, asset_url, root_path, module_path, proj_type,
                   detected_version, cwd, steps>>

\* asset_url = get_release_asset(...); if asset_url: ...
GetReleaseAssetFrom(responses) ==
    /\ pc = "release"
    /\ \E r \in responses \cup {NoResponse} :
          LET a == get_release_asset(r, module_names[i])
          IN /\ last' = Event("release", r, a)
             /\ steps' = <<"release">>
             /\ IF a.exc # "none"
                THEN /\ Abort(a.exc)
                     /\ UNCHANGED asset_url
                ELSE /\ asset_url' = a.val
                     /\ pc' = IF Truthy(a.val) THEN "download" ELSE "source"
                     /\ UNCHANGED <<i, err>>
    /\ UNCHANGED <<argv, github_url, module_names, version, owner, repo,
                   root_path, module_path, proj_type, detected_version, cwd>>

Main_GetReleaseAsset == GetReleaseAssetFrom(Releases(MainAssetNames, MaxMainAssets))

\* As Main_DownloadFile, without the continue: the loop body goes on.
Main_DownloadFile_NoContinue ==
    /\ pc = "download"
    /\ \E http \in {"ok", "error"} :
          LET r == download_file(asset_url, http)
          IN /\ last' = Event("download", [url |-> asset_url, http |-> http], r)
             /\ steps' = Append(steps, "download")
             /\ IF r.exc # "none"
                THEN /\ Abort(r.exc)
                     /\ UNCHANGED cwd
                ELSE /\ cwd' = cwd \cup {r.val}
                     /\ pc' = "source"
                     /\ UNCHANGED <<i, err>>
    /\ UNCHANGED <<argv, github_url, module_names, version, owner, repo,
                   asset_url, root_path, module_path, proj_type, detected_version>>

\* download_file(asset_url, os.getcwd()); continue
Main_DownloadFile ==
    /\ pc = "download"
    /\ \E http \in {"ok", "error"} :
          LET r == download_file(asset_url, http)
          IN /\ last' = Event("download", [url |-> asset_url, http |-> http], r)
             /\ steps' = Append(steps, "download")
             /\ IF r.exc # "none"
                THEN /\ Abort(r.exc)
                     /\ UNCHANGED <<asset_url, root_path, module_path, proj_type,
                                    detected_version, cwd>>
                ELSE /\ cwd' = cwd \cup {r.val}
                     /\ NextIteration
    /\ UNCHANGED <<argv, github_url, module_names, version, owner, repo>>

\* root_path = download_source(owner, repo, version)
Main_DownloadSource ==
    /\ pc = "source"
    /\ \E outcome \in {"ok", "http_error", "bad_zip", "empty_archive"} :
          LET r == download_source(outcome)
          IN /\ last' = Event("source", outcome, r)
             /\ steps' = Append(steps, "source")
             /\ IF r.exc # "none"
                THEN /\ Abort(r.exc)
                     /\ UNCHANGED root_path
                ELSE /\ root_path' = r.val
                     /\ pc' = "find"
                     /\ UNCHANGED <<i, err>>
    /\ UNCHANGED <<argv, github_url, module_names, version, owner, repo,
                   asset_url, module_path, proj_type, detected_version, cwd>>

\* module_path = find_module_path(root_path, module_name)
Main_FindModulePath ==
    /\ pc = "find"
    /\ \E walk \in Walks(root_path) :
          LET r == find_module_path(walk, module_names[i])
          IN /\ last' = Event("find", None, r)
             /\ steps' = Append(steps, "find")
             /\ IF r.exc # "none"
                THEN /\ Abort(r.exc)
                     /\ UNCHANGED module_path
                ELSE /\ module_path' = r.val
                     /\ pc' = "detect"
                     /\ UNCHANGED <<i, err>>
    /\ UNCHANGED <<argv, github_url, module_names, version, owner, repo,
                   asset_url, root_path, proj_type, detected_version, cwd>>

\* proj_type = detect_project_type(module_path)
Main_DetectProjectType ==
    /\ pc = "detect"
    /\ \E pom_exists \in BOOLEAN, package_json_exists \in BOOLEAN :
          /\ proj_type' = detect_project_type(pom_exists, package_json_exists)
          /\ last' = [step |-> "detect",
                      obs |-> [pom |-> pom_exists, package_json |-> package_json_exists],
                      exc |-> "none", out |-> None]
    /\ steps' = Append(steps, "detect")
    /\ pc' = "version"
    /\ UNCHANGED <<argv, github_url, module_names, version, owner, repo, i, err,
                   asset_url, root_path, module_path, detected_version, cwd>>

\* detected_version = version or get_version(module_path, proj_type)
Main_GetVersion ==
    /\ pc = "version"
    /\ steps' = Append(steps, "version")
    /\ IF Truthy(version)
       THEN /\ detected_version' = version
            /\ last' = Event("version", [read |-> FALSE, doc |-> NoDoc], Ok(version))
            /\ pc' = "dispatch"
            /\ UNCHANGED <<i, err>>
       ELSE \E doc \in (CASE proj_type = "maven" -> PomDocs
                          [] proj_type = "npm" -> PackageDocs
                          [] OTHER -> {NoDoc}) :
               LET r == get_version(doc, proj_type)
               IN /\ last' = Event("version",
                                   [read |-> proj_type \in {"maven", "npm"}, doc |-> doc], r)
                  /\ IF r.exc # "none"
                     THEN /\ Abort(r.exc)
                          /\ UNCHANGED detected_version
                     ELSE /\ detected_version' = r.val
                          /\ pc' = "dispatch"
                          /\ UNCHANGED <<i, err>>
    /\ UNCHANGED <<argv, github_url, module_names, version, owner, repo,
                   asset_url, root_path, module_path, proj_type, cwd>>

\* The outcome of a build: the artifact copied into the working directory
\* and the next pass, or the exception.
Built(tool, runs, dir, r) ==
    /\ last' = Event(tool, [runs |-> runs, dir |-> dir], r)
    /\ steps' = Append(steps, tool)
    /\ IF r.exc # "none"
       THEN /\ Abort(r.exc)
            /\ UNCHANGED <<asset_url, root_path, module_path, proj_type,
                           detected_version, cwd>>
       ELSE /\ cwd' = cwd \cup {r.val}
            /\ NextIteration
    /\ UNCHANGED <<argv, github_url, module_names, version, owner, repo>>

\* if proj_type == "maven": package_maven_module(...)
Main_PackageMaven ==
    /\ pc = "dispatch"
    /\ proj_type = "maven"
    /\ \E runs \in MvnRuns, target \in TargetDirs :
          Built("maven", runs, target, package_maven_module(runs, target))

\* elif proj_type == "npm": package_npm_module(module_path)
Main_PackageNpm ==
    /\ pc = "dispatch"
    /\ proj_type = "npm"
    /\ \E runs \in NpmRuns, dir \in ModuleDirs :
          Built("npm", runs, dir, package_npm_module(runs, dir))

\* else: print("Unknown project type ...")
Main_UnknownType ==
    /\ pc = "dispatch"
    /\ proj_type \notin {"maven", "npm"}
    /\ last' = Event("unknown", None, Ok(None))
    /\ steps' = Append(steps, "unknown")
    /\ cwd' = cwd
    /\ NextIteration
    /\ UNCHANGED <<argv, github_url, module_names, version, owner, repo>>

Next ==
    \/ Main_Usage
    \/ Main_ParseArgs
    \/ Main_GetReleaseAsset
    \/ Main_DownloadFile
    \/ Main_DownloadSource
    \/ Main_FindModulePath
    \/ Main_DetectProjectType
    \/ Main_GetVersion
    \/ Main_PackageMaven
    \/ Main_PackageNpm
    \/ Main_UnknownType

Spec == Init /\ [][Next]_vars

(***************************************************************************)
(* parse_github_url over many URLs: the start of __main__ alone.           *)
(***************************************************************************)
InitLocator ==
    /\ argv \in ArgvsOver(LocatorUrls)
    /\ github_url = None /\ module_names = <<>> /\ version = None
    /\ owner = None /\ repo = None
    /\ i = 0 /\ pc = "start" /\ err = "none"
    /\ asset_url = None /\ root_path = None /\ module_path = None
    /\ proj_type = "none" /\ detected_version = None
    /\ cwd = {}
    /\ last = Event("none", None, Ok(None))
    /\ steps = <<>>

NextLocator == Main_ParseArgs

SpecLocator == InitLocator /\ [][NextLocator]_vars

(***************************************************************************)
(* get_release_asset over many releases: the first statement of the loop   *)
(* body alone, for one module.                                             *)
(***************************************************************************)
ResolverModuleNames == {<<"m">>, <<"M">>, <<"x">>, <<>>}

InitResolver ==
    /\ \E m \in ResolverModuleNames, u \in {UrlHead \o <<"/", "o", "/", "r">>} :
          \/ argv = <<Prog, u, m>> /\ version = None
          \/ \E v \in Versions : argv = <<Prog, u, m, v>> /\ version = v
    /\ github_url = argv[2] /\ module_names = split(argv[3], ",")
    /\ owner = <<"o">> /\ repo = <<"r">>
    /\ i = 1 /\ pc = "release" /\ err = "none"
    /\ asset_url = None /\ root_path = None /\ module_path = None
    /\ proj_type = "none" /\ detected_version = None
    /\ cwd = {}
    /\ last = Event("parse", None, Ok(None))
    /\ steps = <<>>

Resolver_GetReleaseAsset == GetReleaseAssetFrom(Releases(AssetNames, MaxAssets))

NextResolver == Resolver_GetReleaseAsset

SpecResolver == InitResolver /\ [][NextResolver]_vars

(***************************************************************************)
(* Properties.                                                             *)
(***************************************************************************)
InLoop == i >= 1
AllOk(runs) == \A k \in 1..Len(runs) : runs[k] = "ok"
IsPrefix(s, t) == Len(s) <= Len(t) /\ SubSeq(t, 1, Len(s)) = s
SlowPath == <<"release", "source", "find", "detect", "version">>

\* C1: a failure while processing one module is reported and the later
\* modules are still processed; no error raised inside the loop ends the run.
C1_ModuleErrorNeverAbortsRun == (pc = "aborted") => ~InLoop

\* C2: when get_release_asset returns an asset for a module, the next call is
\* download_file on that asset; the calls made for the module are then
\* exactly the release query and the download (no source fetch, module
\* location, type detection or build); a download that succeeds leaves the
\* asset's file in the working directory and ends the pass for that module.
C2_Step ==
    /\ (pc = "release" /\ last'.exc = "none" /\ Truthy(last'.out)) =>
          /\ pc' = "download"
          /\ asset_url' = last'.out
          /\ i' = i
    /\ (pc = "download") =>
          /\ last'.step = "download"
          /\ last'.obs.url = asset_url
          /\ steps' = <<"release", "download">>
          /\ IF last'.exc = "none"
             THEN /\ \E k \in 1..Len(last.obs.assets) :
                        /\ last.obs.assets[k].browser_download_url = asset_url
                        /\ last.obs.assets[k].name \in cwd'
                  /\ i' = i + 1
                  /\ pc' \in {"release", "done"}
             ELSE pc' = "aborted" /\ cwd' = cwd

C2_FastPathEndsModule == [][C2_Step]_vars

C2_Witness ==
    /\ last.step = "download" /\ last.exc = "none"
    /\ steps = <<"release", "download">>
    /\ pc = "release" /\ i = 2 /\ cwd # {}

\* C3: for a release fetched with status 200, get_release_asset returns the
\* download URL of the first asset, in API order, whose lowercased name
\* contains the lowercased module name (when one is given) and ends with
\* .jar, .tgz, .zip or .tar.gz, and None when no asset qualifies.
AcceptedSuffixes == {<<".", "j", "a", "r">>, <<".", "t", "g", "z">>,
                     <<".", "z", "i", "p">>, <<".", "t", "a", "r", ".", "g", "z">>}

Qualifies(asset, module_name) ==
    /\ module_name # <<>> => contains(lower(asset.name), lower(module_name))
    /\ \E e \in AcceptedSuffixes : endswith(lower(asset.name), e)

C3_FirstQualifyingAsset ==
    (last.step = "release" /\ last.obs.status_code = 200) =>
        LET assets == last.obs.assets
            Q == {k \in 1..Len(assets) : Qualifies(assets[k], module_names[i])}
        IN /\ last.exc = "none"
           /\ IF Q = {}
              THEN last.out = None
              ELSE \E k \in Q : /\ \A j \in Q : k <= j
                                /\ last.out = assets[k].browser_download_url

C3_Witness ==
    /\ last.step = "release" /\ last.obs.status_code = 200
    /\ Len(last.obs.assets) = 3
    /\ module_names[i] = <<"M">>
    /\ last.obs.assets[1].name = <<"f", "-", "m", ".", "e", "x", "e">>
    /\ last.obs.assets[2].name = <<"x", ".", "z", "i", "p">>
    /\ last.obs.assets[3].name = <<"f", "-", "m">> \o Tgz
    /\ last.out = last.obs.assets[3].browser_download_url

\* C4: when the release query answers with a non-success status,
\* get_release_asset returns None without raising, and the caller goes on to
\* the source fetch for that module; neither the module nor the run fails.
C4_NoReleaseFallsBackToSource ==
    (last.step = "release" /\ last.obs.status_code \notin {0, 200}) =>
        /\ last.exc = "none"
        /\ last.out = None
        /\ asset_url = None
        /\ pc = "source"
        /\ err = "none"
        /\ steps = <<"release">>

C4_Witness ==
    /\ last.step = "release" /\ last.obs.status_code = 404
    /\ pc = "source" /\ i = 2

\* C5: a module directory with neither pom.xml nor package.json is classified
\* unknown; for it get_version does not fail, no build tool is run, nothing
\* is written to the working directory, the unknown type is reported and the
\* loop goes on to the next module.
C5_Step ==
    /\ (pc = "detect" /\ ~last'.obs.pom /\ ~last'.obs.package_json) =>
          proj_type' = "unknown" /\ pc' = "version" /\ cwd' = cwd
    /\ (pc = "version" /\ proj_type = "unknown") =>
          /\ last'.exc = "none"
          /\ pc' = "dispatch"
          /\ proj_type' = "unknown"
          /\ cwd' = cwd
    /\ (pc = "dispatch" /\ proj_type = "unknown") =>
          /\ last'.step = "unknown"
          /\ steps' = Append(SlowPath, "unknown")
          /\ cwd' = cwd
          /\ err' = "none"
          /\ i' = i + 1
          /\ pc' = IF i < Len(module_names) THEN "release" ELSE "done"

C5_UnknownTypeSkipsBuild == [][C5_Step]_vars

C5_Witness ==
    /\ last.step = "unknown"
    /\ steps = Append(SlowPath, "unknown")
    /\ pc = "release" /\ i = 2

C7_OwnerAndRepoNonEmpty ==
    (pc # "start") =>
        \/ pc = "aborted" /\ err = "ValueError"
        \/ owner # <<>> /\ repo # <<>>

\* C8: version resolution never fails and always gives a string: the explicit
\* version, unchanged and without reading a descriptor, when one was given;
\* otherwise the version the descriptor declares, or "unknown" when the
\* field is absent, the descriptor is malformed or the type is unknown.
C8_VersionResolutionNeverFails ==
    (last.step = "version") =>
        /\ last.exc = "none"
        /\ last.out # None
        /\ version # None => last.out = version /\ ~last.obs.read
        /\ (version = None /\ ~last.obs.doc.wellformed) => last.out = Unknown
        /\ (version = None /\ proj_type = "unknown") => last.out = Unknown

\* C9: when the build tool exits with success and its output directory holds
\* no file with the expected extension, the module fails with
\* FileNotFoundError; on a non-zero exit it fails with CalledProcessError, a
\* different error; in both cases nothing is copied into the working
\* directory.
C9_Step ==
    (pc = "dispatch" /\ last'.step \in {"maven", "npm"}) =>
        LET runs == last'.obs.runs
            files == last'.obs.dir.files
            ext == IF last'.step = "maven" THEN Jar ELSE Tgz
            produced == \E k \in 1..Len(files) : endswith(files[k], ext)
        IN /\ (AllOk(runs) /\ ~produced) =>
                 /\ last'.exc = "FileNotFoundError"
                 /\ err' = "FileNotFoundError"
                 /\ pc' = "aborted"
                 /\ cwd' = cwd
           /\ (\E k \in 1..Len(runs) : runs[k] = "nonzero") =>
                 /\ last'.exc = "CalledProcessError"
                 /\ err' = "CalledProcessError"
                 /\ pc' = "aborted"
                 /\ cwd' = cwd

C9_ArtifactNotFoundIsDistinct == [][C9_Step]_vars

C9_Witness ==
    /\ last.step = "maven" /\ last.obs.runs = <<"ok">>
    /\ last.obs.dir.exists /\ Len(last.obs.dir.files) = 2
    /\ last.exc = "FileNotFoundError" /\ pc = "aborted"

\* C10: modules are processed one after the other; for a module without a
\* release asset the calls are source fetch, module location, type
\* detection, version resolution, build dispatch, in this order, each made
\* only after the one before it returned; an artifact is copied into the
\* working directory only after the build tool exited with success.
C10_StepsInOrder ==
    \/ IsPrefix(steps, SlowPath)
    \/ steps = <<"release", "download">>
    \/ \E t \in {"maven", "npm", "unknown"} : steps = Append(SlowPath, t)

C10_Step ==
    /\ i' \in {i, i + 1}
    /\ (i' # i) => pc \in {"start", "download", "dispatch"} /\ last'.exc = "none"
    /\ (pc' = "release") => pc \in {"start", "download", "dispatch"} /\ i' = i + 1
    /\ (pc' = "source") =>
          pc = "release" /\ last'.step = "release" /\ last'.exc = "none"
             /\ ~Truthy(last'.out)
    /\ (pc' = "find") => pc = "source" /\ last'.step = "source" /\ last'.exc = "none"
    /\ (pc' = "detect") => pc = "find" /\ last'.step = "find" /\ last'.exc = "none"
    /\ (pc' = "version") => pc = "detect" /\ last'.step = "detect"
    /\ (pc' = "dispatch") =>
          pc = "version" /\ last'.step = "version" /\ last'.exc = "none"
    /\ (last'.step \in {"maven", "npm", "unknown"}) =>
          pc = "dispatch" /\ steps = SlowPath
    /\ (last'.step \in {"maven", "npm"} /\ last'.exc = "none") =>
          AllOk(last'.obs.runs) /\ last'.out \in cwd'
    /\ (cwd' # cwd) =>
          \/ pc = "download" /\ last'.exc = "none"
          \/ /\ pc = "dispatch" /\ last'.step \in {"maven", "npm"}
             /\ last'.exc = "none" /\ AllOk(last'.obs.runs)

C10_SequentialOrder == []C10_StepsInOrder /\ [][C10_Step]_vars

C10_Witness ==
    /\ steps = Append(SlowPath, "npm")
    /\ last.step = "npm" /\ last.out \in cwd
    /\ pc = "release" /\ i = 2

====
